---- MODULE Spec2Model ----
(***************************************************************************)
(* Crawl orchestrator of src/lib/crawler.ts.  The file holds two           *)
(* implementations of crawlDesignSystem: the link-list one (lines 34-123,  *)
(* discoverPages + for loop over uniqueLinks) and the queue-driven one     *)
(* (lines 847-938, queue + visitedUrls + pageCount).  Both call the same   *)
(* extractPageContent retry loop.  `variant` selects which one runs.       *)
(*                                                                         *)
(* URLs are the integers 1..NUrls (normalized strings); RawSeed is another  *)
(* spelling of URL 1; an href 0 is one that extractUrls / discoverPages     *)
(* drops (unresolvable, other host, asset, /api/).  Every await that can    *)
(* reject is a nondeterministic choice between fulfilment and rejection.    *)
(***************************************************************************)
EXTENDS Integers, Sequences, FiniteSets, TLC

\* ---- bounds of the model ----
\* crawler.ts:15 sets MAX_PAGES = 50; the model scales it down, with a URL
\* universe one larger than the page bound so that the bound can be overrun.
MAX_PAGES == 3
MaxLinks == 2
NUrls == MAX_PAGES + 1

\* ---- program constants ----
MAX_RETRIES == 3
RATE_LIMIT_MS == 1000
SETTLE_MS == 2000
STABILIZE_MS == 1000

Urls == 1..NUrls
InvalidSeed == 0
Hrefs == 0..NUrls
\* the url argument: an unparsable string, or a spelling of URL 1 that is
\* not in normalized form (URL names are symmetric)
RawSeed == NUrls + 1
Seeds == {InvalidSeed, RawSeed}

VARIABLES
  variant,      \* "list" | "queue": which crawlDesignSystem runs
  seed,         \* the url argument
  aborted,      \* signal.aborted
  pc,           \* position of the async function
  browser,      \* "none" | "open" | "closed"
  closeCount,   \* number of browser.close() calls
  tabs,         \* tabs opened by browser.newPage() and not closed
  uniqueLinks,  \* list variant: the sliced, deduplicated link list
  i,            \* list variant: loop index (0-based)
  queue,        \* queue variant: queue
  visitedUrls,  \* queue variant: visitedUrls
  pageCount,    \* queue variant: pageCount
  currentUrl,   \* currentUrl of the iteration (0 = none)
  retries,      \* retries of the running discoverPages / extractPageContent
  pages,        \* extractedPages / pages: the output array
  progress,     \* the onProgress calls made so far
  result,       \* "running" | "returned" | "threw"
  thrown,       \* message of the error the call rejected with
  handed,       \* history: URLs taken from the frontier for processing
  enq,          \* history: URLs in the order they entered the frontier
  navUrl,       \* history: URL of the latest page.goto
  navs,         \* history: number of consecutive page.goto calls to navUrl
  waited,       \* history: ms of delay (wait() calls and in-page settle
                \* timers) since the latest page.goto
  limited,      \* history: wait(RATE_LIMIT_MS) was called since the latest
                \* page.goto
  lnk,          \* one link harvest (discoverPages' filter / extractUrls)
  ext,          \* one page.evaluate + code sample pass of extractPageContent
  bat,          \* one batchProcessPages call
  sto,          \* localStorage and the calls made on it
  red,          \* the redux store (designSystemSlice)
  srch,         \* one searchPages call
  pds,          \* one processDesignSystem run
  oll           \* one queryOllama call

vars == <<variant, seed, aborted, pc, browser, closeCount, tabs, uniqueLinks, i,
          queue, visitedUrls, pageCount, currentUrl, retries, pages, progress,
          result, thrown, handed, enq, navUrl, navs, waited, limited,
          lnk, ext, bat, sto, red, srch, pds, oll>>

inputVars == <<variant, seed>>
\* the components checked on their own, which a crawl run leaves alone
otherVars == <<lnk, ext, bat, sto, red, srch, pds, oll>>
\* the components outside the crawler module
laterVars == <<sto, red, srch, pds, oll>>
listVars == <<uniqueLinks, i>>
queueVars == <<queue, visitedUrls, pageCount>>
browserVars == <<browser, closeCount, tabs>>
navVars == <<navUrl, navs, waited, limited>>
outVars == <<pages, progress>>
endVars == <<result, thrown>>

\* ---- helpers ----
RECURSIVE SeqsUpTo(_, _)
SeqsUpTo(S, n) ==
  IF n = 0 THEN {<<>>}
  ELSE LET shorter == SeqsUpTo(S, n - 1)
       IN  shorter \cup {Append(s, x) : s \in {t \in shorter : Len(t) = n - 1}, x \in S}

\* the hrefs of one rendered page, in document order
HrefSeqs == SeqsUpTo(Hrefs, MaxLinks)
\* the hrefs of the seed page the link-list variant discovers from: the seed
\* page alone can fill the link list past MAX_PAGES
DiscoverHrefSeqs == SeqsUpTo(Hrefs, MAX_PAGES)

Range(s) == {s[k] : k \in 1..Len(s)}

Min(a, b) == IF a < b THEN a ELSE b

\* [...new Set(xs)]: first occurrences, in insertion order
RECURSIVE SetOrder(_)
SetOrder(xs) ==
  IF xs = <<>> THEN <<>>
  ELSE LET front == SetOrder(SubSeq(xs, 1, Len(xs) - 1))
           last == xs[Len(xs)]
       IN  IF last \in Range(front) THEN front ELSE Append(front, last)

\* Array.prototype.slice(0, n)
Slice(xs, n) == SubSeq(xs, 1, Min(n, Len(xs)))

IsPrefix(s, t) == Len(s) <= Len(t) /\ s = SubSeq(t, 1, Len(s))

NoDup(s) == \A a, b \in 1..Len(s) : s[a] = s[b] => a = b

\* normalizeUrl: new URL(url).toString(), or throws `Invalid URL: ...`
AnyUrlValid(u) == TRUE
ValidUrl(u) == u \in Urls \cup {RawSeed}
normalizeUrl(u) == IF u = RawSeed THEN 1 ELSE u

\* the href survives resolution and the host / path / extension filter
Crawlable(h) == h \in Urls

\* extractUrls: resolve, filter, push; return [...new Set(newUrls)]
extractUrls(hrefs) == SetOrder(SelectSeq(hrefs, Crawlable))

\* discoverPages' page.evaluate: map (resolve) and filter, no deduplication
discoverLinks(hrefs) == SelectSeq(hrefs, Crawlable)

\* visitedUrls.has(u)
NeverVisited(u, visited) == FALSE
Visited(u, visited) == u \in visited

\* queue.shift(): the element taken and the queue left
Pop(q) == [item |-> q[Len(q)], rest |-> SubSeq(q, 1, Len(q) - 1)]
Peek(q) == [item |-> Head(q), rest |-> q]
Shift(q) == [item |-> Head(q), rest |-> Tail(q)]

\* pageCount < MAX_PAGES
Unbounded(n) == TRUE
BelowBound(n) == n < MAX_PAGES

\* the record extractPageContent returns (no errors field)
SuccessRecord(u) ==
  [url |-> u, textContent |-> "text", semanticContent |-> "content",
   metadata |-> {"title", "jsonLd"}, codeSamples |-> 1, errors |-> <<>>]

\* the record the link-list catch block fabricates
ErrorRecord(u, msg) ==
  [url |-> u, textContent |-> "", semanticContent |-> "",
   metadata |-> {}, codeSamples |-> 0, errors |-> <<msg>>]

\* a page.goto(u): history of navigations
Goto(u) ==
  /\ navUrl' = u
  /\ navs' = IF u = navUrl THEN navs + 1 ELSE 1

\* how one pass of a retry loop ends: fulfilled, page.goto rejected, or a
\* page.evaluate after the settle timer rejected
Outcomes == {"ok", "timeout", "evalError"}

\* the in-page settle timer a pass has run through (none when goto rejected)
Settled(o, ms) == IF o = "timeout" THEN 0 ELSE ms

\* a component that is not part of the run being checked
Off == [pc |-> "off"]
LaterOff == sto = Off /\ red = Off /\ srch = Off /\ pds = Off /\ oll = Off

Init ==
  /\ lnk = Off /\ ext = Off /\ bat = Off /\ LaterOff
  /\ variant \in {"list", "queue"}
  /\ seed \in Seeds
  /\ aborted = FALSE
  /\ pc = "start"
  /\ browser = "none"
  /\ closeCount = 0
  /\ tabs = 0
  /\ uniqueLinks = <<>>
  /\ i = 0
  /\ queue = <<>>
  /\ visitedUrls = {}
  /\ pageCount = 0
  /\ currentUrl = 0
  /\ retries = 0
  /\ pages = <<>>
  /\ progress = <<>>
  /\ result = "running"
  /\ thrown = ""
  /\ handed = <<>>
  /\ enq = <<>>
  /\ navUrl = 0
  /\ navs = 0
  /\ waited = 0
  /\ limited = FALSE

\* signal?.aborted, as the loop heads read it
SignalIgnored == FALSE
SignalAborted == aborted

\* the caller aborts the AbortSignal at any moment of the run
Abort ==
  /\ result = "running"
  /\ ~aborted
  /\ aborted' = TRUE
  /\ UNCHANGED <<otherVars, inputVars, pc, browserVars, listVars, queueVars, currentUrl,
                 retries, outVars, endVars, handed, enq, navVars>>

\* normalizeUrl(url) and puppeteer.launch (both variants)
Launch ==
  /\ pc = "start"
  /\ \E launched \in BOOLEAN :
       IF ~ValidUrl(seed)
       THEN /\ pc' = "failed" /\ result' = "threw" /\ thrown' = "Invalid URL"
            /\ UNCHANGED <<browser, queue, enq>>
       ELSE IF ~launched
       THEN /\ pc' = "failed" /\ result' = "threw" /\ thrown' = "launch"
            /\ UNCHANGED <<browser, queue, enq>>
       ELSE /\ browser' = "open"
            /\ UNCHANGED <<result, thrown>>
            /\ IF variant = "queue"
               THEN /\ pc' = "q_loop"
                    /\ queue' = <<normalizeUrl(seed)>>
                    /\ enq' = <<normalizeUrl(seed)>>
               ELSE /\ pc' = "l_newPage"
                    /\ UNCHANGED <<queue, enq>>
  /\ UNCHANGED <<otherVars, inputVars, aborted, closeCount, tabs, listVars, visitedUrls,
                 pageCount, currentUrl, retries, outVars, handed, navVars>>

\* ---- extractPageContent (the retry loop both variants call) ----
\* One pass of the while loop: page.goto, settle, page.evaluate.  `o` is how
\* the pass ends.  A failed pass increments retries; the MAX_RETRIES-th
\* failure rethrows, any earlier one is followed by wait(RATE_LIMIT_MS).
ExtractRethrows(o) == o # "ok" /\ retries + 1 = MAX_RETRIES

extractPageContent(o) ==
  /\ Goto(currentUrl)
  /\ retries' = IF o = "ok" THEN retries ELSE retries + 1

\* ---- queue variant (crawler.ts:847-938) ----
\* while (queue.length > 0 && pageCount < MAX_PAGES) { if aborted break;
\*   shift; if visited continue; visitedUrls.add }
QLoop ==
  /\ variant = "queue"
  /\ pc = "q_loop"
  /\ IF queue = <<>> \/ ~BelowBound(pageCount) \/ SignalAborted
     THEN /\ pc' = "close"
          /\ UNCHANGED <<queue, visitedUrls, currentUrl, handed>>
     ELSE LET u == Shift(queue).item IN
          /\ queue' = Shift(queue).rest
          /\ IF Visited(u, visitedUrls)
             THEN /\ pc' = "q_loop"
                  /\ UNCHANGED <<visitedUrls, currentUrl, handed>>
             ELSE /\ visitedUrls' = visitedUrls \cup {u}
                  /\ currentUrl' = u
                  /\ handed' = Append(handed, u)
                  /\ pc' = "q_newPage"
  /\ UNCHANGED <<otherVars, inputVars, aborted, browserVars, listVars, pageCount, retries,
                 outVars, endVars, enq, navVars>>

\* browser.newPage(), setViewport, setDefaultNavigationTimeout,
\* setJavaScriptEnabled inside the per-page try
QNewPage ==
  /\ variant = "queue"
  /\ pc = "q_newPage"
  /\ \E o \in {"ok", "newPage", "setViewport"} :
       /\ tabs' = IF o = "newPage" THEN tabs ELSE tabs + 1
       /\ pc' = IF o = "ok" THEN "q_goto" ELSE "q_loop"
  /\ UNCHANGED <<otherVars, inputVars, aborted, browser, closeCount, listVars, queueVars,
                 currentUrl, retries, outVars, endVars, handed, enq, navVars>>

\* page.goto(currentUrl) of the loop body, then wait(2000)
QGoto ==
  /\ variant = "queue"
  /\ pc = "q_goto"
  /\ Goto(currentUrl)
  /\ \E o \in {"ok", "timeout"} :
       IF o = "ok"
       THEN /\ waited' = SETTLE_MS
            /\ retries' = 0
            /\ pc' = "extract"
       ELSE /\ waited' = 0
            /\ pc' = "q_loop"
            /\ UNCHANGED retries
  /\ limited' = FALSE
  /\ UNCHANGED <<otherVars, inputVars, aborted, browserVars, listVars, queueVars,
                 currentUrl, outVars, endVars, handed, enq>>

\* await extractPageContent(page, currentUrl); pages.push; pageCount++;
\* onProgress -- or the catch block: log and continue
QExtract ==
  /\ variant = "queue"
  /\ pc = "extract"
  /\ \E o \in Outcomes :
       /\ extractPageContent(o)
       /\ IF o = "ok"
          THEN /\ pages' = Append(pages, SuccessRecord(currentUrl))
               /\ pageCount' = pageCount + 1
               /\ progress' = Append(progress,
                    [pagesProcessed |-> pageCount + 1,
                     totalPages |-> Min(Len(queue) + pageCount + 1, MAX_PAGES),
                     currentPage |-> currentUrl,
                     appended |-> Len(pages) + 1])
               /\ waited' = Settled(o, STABILIZE_MS)
               /\ limited' = FALSE
               /\ pc' = "q_urls"
          ELSE /\ UNCHANGED <<pages, pageCount, progress>>
               /\ IF ExtractRethrows(o)
                  THEN /\ waited' = Settled(o, STABILIZE_MS)
                       /\ limited' = FALSE
                       /\ pc' = "q_loop"
                  ELSE /\ waited' = Settled(o, STABILIZE_MS) + RATE_LIMIT_MS
                       /\ limited' = TRUE
                       /\ pc' = "extract"
  /\ UNCHANGED <<otherVars, inputVars, aborted, browserVars, listVars, queue, visitedUrls,
                 currentUrl, endVars, handed, enq>>

\* extractUrls(page, normalizedUrl); queue.push(unvisited); page.close();
\* wait(RATE_LIMIT_MS) -- or page.evaluate rejects and the catch continues
QUrls ==
  /\ variant = "queue"
  /\ pc = "q_urls"
  /\ \E ok \in BOOLEAN, hrefs \in HrefSeqs :
       IF ok
       THEN LET fresh == SelectSeq(extractUrls(hrefs),
                                   LAMBDA u : ~Visited(u, visitedUrls)) IN
            /\ queue' = queue \o fresh
            /\ enq' = enq \o fresh
            /\ tabs' = tabs - 1
            /\ waited' = waited + RATE_LIMIT_MS
            /\ limited' = TRUE
       ELSE /\ hrefs = <<>>
            /\ UNCHANGED <<queue, enq, tabs, waited, limited>>
  /\ pc' = "q_loop"
  /\ UNCHANGED <<otherVars, inputVars, aborted, browser, closeCount, listVars, visitedUrls,
                 pageCount, currentUrl, retries, outVars, endVars, handed,
                 navUrl, navs>>

\* ---- link-list variant (crawler.ts:34-123) ----
\* browser.newPage(), page.setViewport before the try block
LNewPage ==
  /\ variant = "list"
  /\ pc = "l_newPage"
  /\ \E o \in {"ok", "newPage", "setViewport"} :
       /\ tabs' = IF o = "newPage" THEN tabs ELSE tabs + 1
       /\ IF o = "ok"
          THEN /\ pc' = "l_discover"
               /\ UNCHANGED endVars
          ELSE /\ pc' = "failed"
               /\ result' = "threw"
               /\ thrown' = o
  /\ retries' = 0
  /\ UNCHANGED <<otherVars, inputVars, aborted, browser, closeCount, listVars, queueVars,
                 currentUrl, outVars, handed, enq, navVars>>

\* discoverPages: one pass of its retry loop, then
\* uniqueLinks = [...new Set([normalizedUrl, ...links])].slice(0, MAX_PAGES)
LDiscover ==
  /\ variant = "list"
  /\ pc = "l_discover"
  /\ Goto(normalizeUrl(seed))
  /\ \E o \in Outcomes, hrefs \in DiscoverHrefSeqs :
       LET done == o = "ok" \/ retries + 1 = MAX_RETRIES
           links == IF o = "ok" THEN discoverLinks(hrefs) ELSE <<>>
           all == <<normalizeUrl(seed)>> \o links
       IN  /\ o # "ok" => hrefs = <<>>
           /\ retries' = IF o = "ok" THEN retries ELSE retries + 1
           /\ IF done
              THEN /\ uniqueLinks' = Slice(SetOrder(all), MAX_PAGES)
                   /\ enq' = all
                   /\ waited' = Settled(o, SETTLE_MS)
                   /\ limited' = FALSE
                   /\ pc' = "l_loop"
              ELSE /\ waited' = Settled(o, SETTLE_MS) + RATE_LIMIT_MS
                   /\ limited' = TRUE
                   /\ pc' = "l_discover"
                   /\ UNCHANGED <<uniqueLinks, enq>>
  /\ UNCHANGED <<otherVars, inputVars, aborted, browserVars, i, queueVars, currentUrl,
                 outVars, endVars, handed>>

\* for (i < uniqueLinks.length && !signal.aborted): currentUrl, onProgress
LLoop ==
  /\ variant = "list"
  /\ pc = "l_loop"
  /\ IF i < Len(uniqueLinks) /\ ~SignalAborted
     THEN /\ currentUrl' = uniqueLinks[i + 1]
          /\ progress' = Append(progress,
               [pagesProcessed |-> i + 1,
                totalPages |-> Len(uniqueLinks),
                currentPage |-> uniqueLinks[i + 1],
                appended |-> Len(pages)])
          /\ handed' = Append(handed, uniqueLinks[i + 1])
          /\ retries' = 0
          /\ pc' = "extract"
     ELSE /\ pc' = "close"
          /\ UNCHANGED <<currentUrl, progress, handed, retries>>
  /\ UNCHANGED <<otherVars, inputVars, aborted, browserVars, listVars, queueVars, pages,
                 endVars, enq, navVars>>

\* try { extractPageContent; push } catch { push error record };
\* wait(RATE_LIMIT_MS); i++
LExtract ==
  /\ variant = "list"
  /\ pc = "extract"
  /\ \E o \in Outcomes :
       /\ extractPageContent(o)
       /\ IF o = "ok"
          THEN /\ pages' = Append(pages, SuccessRecord(currentUrl))
               /\ i' = i + 1
               /\ pc' = "l_loop"
          ELSE IF ExtractRethrows(o)
          THEN /\ pages' = Append(pages, ErrorRecord(currentUrl, o))
               /\ i' = i + 1
               /\ pc' = "l_loop"
          ELSE /\ pc' = "extract"
               /\ UNCHANGED <<pages, i>>
       /\ waited' = Settled(o, STABILIZE_MS) + RATE_LIMIT_MS
       /\ limited' = TRUE
  /\ UNCHANGED <<otherVars, inputVars, aborted, browserVars, uniqueLinks, queueVars,
                 currentUrl, progress, endVars, handed, enq>>

\* ---- both variants: finally { await browser.close() }; return ----
Close ==
  /\ pc = "close"
  /\ browser' = "closed"
  /\ closeCount' = closeCount + 1
  /\ result' = "returned"
  /\ pc' = "done"
  /\ UNCHANGED <<otherVars, inputVars, aborted, tabs, listVars, queueVars, currentUrl,
                 retries, outVars, thrown, handed, enq, navVars>>

Next ==
  \/ Abort
  \/ Launch
  \/ QLoop
  \/ QNewPage
  \/ QGoto
  \/ QExtract
  \/ QUrls
  \/ LNewPage
  \/ LDiscover
  \/ LLoop
  \/ LExtract
  \/ Close

Spec == Init /\ [][Next]_vars

TypeOK ==
  /\ variant \in {"list", "queue"}
  /\ pc \in {"off", "start", "failed", "q_loop", "q_newPage", "q_goto", "extract",
             "q_urls", "l_newPage", "l_discover", "l_loop", "close", "done"}
  /\ browser \in {"none", "open", "closed"}
  /\ retries \in 0..MAX_RETRIES
  /\ result \in {"running", "returned", "threw"}

\* ---- properties ----
AtLoopHead == pc \in {"q_loop", "l_loop"}
Over == pc \in {"close", "done", "failed"}

\* the frontier still holds URLs that were not handed out
FrontierLeft ==
  IF variant = "queue" THEN queue # <<>> ELSE i < Len(uniqueLinks)

\* the records of the output array for URL u
RecordsOf(u) == {k \in 1..Len(pages) : pages[k].url = u}

\* extractPageContent for currentUrl has thrown after MAX_RETRIES failed passes
Exhausted == currentUrl # 0 /\ retries = MAX_RETRIES

\* the processing of a handed-out URL has ended
Processed(u) ==
  /\ u \in Range(handed)
  /\ u # currentUrl \/ AtLoopHead \/ Over

\* C1: a returned array holds at most MAX_PAGES records and no two of them
\* have the same url.
C1_BoundedUniqueRecords ==
  result = "returned" =>
    /\ Len(pages) <= MAX_PAGES
    /\ \A a, b \in 1..Len(pages) : pages[a].url = pages[b].url => a = b

\* C1 witness: the queue variant returns a full array although more distinct
\* URLs, one of them more than once, entered the frontier.
C1_Witness ==
  /\ variant = "queue" /\ result = "returned"
  /\ Len(pages) = MAX_PAGES
  /\ Cardinality(Range(enq)) > MAX_PAGES
  /\ Len(enq) > Cardinality(Range(enq))

\* C2: once every pass of the retry loop has failed for a URL, the output
\* holds exactly one record for it, that record is an error record (empty
\* text, empty content, empty metadata, no code samples, one message) and the
\* crawl goes on with the loop instead of failing.
C2_ErrorRecordOnExhaustion ==
  Exhausted =>
    /\ result # "threw"
    /\ Cardinality(RecordsOf(currentUrl)) = 1
    /\ \A k \in RecordsOf(currentUrl) :
         /\ pages[k].textContent = ""
         /\ pages[k].semanticContent = ""
         /\ pages[k].metadata = {}
         /\ pages[k].codeSamples = 0
         /\ Len(pages[k].errors) = 1

\* C3: no URL is navigated to more than MAX_RETRIES times, and a navigation
\* to the URL navigated to just before happens after a delay of at least
\* RATE_LIMIT_MS.
C3_AtMostThreeAttempts ==
  /\ [](navs <= MAX_RETRIES)
  /\ [][(navUrl' = navUrl /\ navs' = navs + 1) => waited >= RATE_LIMIT_MS]_vars

\* C4: when the loop head finds the signal aborted, the loop exits: no URL
\* is handed out, no navigation starts, no record is added and nothing is
\* thrown; the exit path returns exactly the records made so far.
C4_CancelReturnsCompleted ==
  [][/\ (aborted /\ AtLoopHead) =>
          /\ pc' = "close"
          /\ pages' = pages
          /\ handed' = handed
          /\ <<navUrl, navs>>' = <<navUrl, navs>>
          /\ result' = "running"
     /\ pc = "close" => (pages' = pages /\ result' # "threw")]_vars

\* C4 witness: the call returned exactly 2 records after an abort, with the
\* frontier not drained and the page bound not reached.
C4_Witness ==
  /\ result = "returned" /\ aborted
  /\ Len(pages) = 2
  /\ FrontierLeft
  /\ variant = "queue" => pageCount < MAX_PAGES

\* C5: when the call has ended after the browser was launched, browser.close
\* has been called exactly once.
C5_ClosedExactlyOnce ==
  (result # "running" /\ browser # "none") => closeCount = 1

\* C6: no URL is taken from the frontier for processing twice.
C6_HandedOnce == NoDup(handed)

\* C6 witness: a URL that entered the frontier more than once was handed out.
C6_Witness ==
  /\ variant = "queue"
  /\ result = "returned"
  /\ \E a, b \in 1..Len(enq) : a # b /\ enq[a] = enq[b] /\ enq[a] \in Range(handed)
  /\ Len(handed) >= 2

\* C7: the frontier hands out at most MAX_PAGES URLs, failed ones included.
C7_HandedAtMostMaxPages == Len(handed) <= MAX_PAGES

\* C8: URLs are handed out in the order in which they first entered the
\* frontier, and the queue is always the not yet taken tail of that order.
C8_BreadthFirst ==
  /\ IsPrefix(handed, SetOrder(enq))
  /\ variant = "queue" =>
       \E k \in 0..Len(enq) : queue = SubSeq(enq, k + 1, Len(enq))

\* C8 witness: when page 2 was recorded the queue still held one URL found on
\* page 1; URL 4 entered the frontier later and was handed out after it.
C8_Witness ==
  /\ variant = "queue"
  /\ handed = <<1, 2, 3, 4>>
  /\ enq = <<1, 2, 3, 4>>
  /\ Len(progress) >= 2
  /\ progress[2].currentPage = 2
  /\ progress[2].totalPages = 3

\* C9: the call rejects only for an invalid seed or a failed launch, and
\* every URL whose processing has ended has a record in the output.
C9_OnlySetupFailuresThrow ==
  /\ result = "threw" => thrown \in {"Invalid URL", "launch"}
  /\ \A u \in Urls : Processed(u) => RecordsOf(u) # {}

\* C10: the k-th onProgress call comes after the k-th record was appended
\* and reports pagesProcessed = k; between pages there are as many calls as
\* records.
C10_ProgressAfterEachRecord ==
  /\ \A k \in 1..Len(progress) :
       /\ progress[k].appended = k
       /\ progress[k].pagesProcessed = k
  /\ (AtLoopHead \/ Over) => Len(progress) = Len(pages)

\* C11: a navigation to another URL than the one navigated to before happens
\* only after wait(RATE_LIMIT_MS) was called since that earlier navigation,
\* also when the earlier URL failed.
C11_RateLimitBetweenUrls ==
  [][(navUrl # 0 /\ navUrl' # navUrl) => limited]_vars

\* C12: when the processing of a URL has ended, the output holds a record with
\* a non-empty errors list for it exactly if its extractPageContent exhausted
\* the retry bound.
C12_ErrorsIffExhausted ==
  (currentUrl # 0 /\ (AtLoopHead \/ Over)) =>
    (Exhausted <=> \E k \in RecordsOf(currentUrl) : pages[k].errors # <<>>)

\* C13: for a seed that does not parse, the call has rejected with
\* `Invalid URL` as soon as it has taken a step: no browser was launched, no
\* page was navigated to, no progress was reported and nothing is returned.
C13_InvalidSeedFailsFast ==
  (seed = InvalidSeed /\ pc \notin {"start", "off"}) =>
    /\ result = "threw" /\ thrown = "Invalid URL"
    /\ browser = "none" /\ closeCount = 0 /\ tabs = 0
    /\ navs = 0
    /\ progress = <<>> /\ pages = <<>>

\* C13 witness: the call with the unparsable seed has ended.
C13_Witness == seed = InvalidSeed /\ pc = "failed" /\ thrown = "Invalid URL"

\* ======================================================================
\* Link harvest on concrete URLs: the filter of discoverPages
\* (crawler.ts:141-176, link-list variant) and extractUrls
\* (crawler.ts:1280-1313, queue variant).
\* A URL is [host, path, tail]: path is the sequence of pathname segments,
\* a segment is [name, ext] ("logo.png" = [name "logo", ext "png"]), tail is
\* "", "#" or "?" (the URL carries a fragment / a query).  The scheme is the
\* same for all URLs, so origin and hostname comparison coincide.
\* ======================================================================
crawlVars == <<variant, seed, aborted, pc, browser, closeCount, tabs,
               uniqueLinks, i, queue, visitedUrls, pageCount, currentUrl,
               retries, pages, progress, result, thrown, handed, enq, navUrl,
               navs, waited, limited>>

\* no crawl is running
CrawlOff ==
  /\ variant = "queue" /\ seed = InvalidSeed /\ aborted = FALSE /\ pc = "off"
  /\ browser = "none" /\ closeCount = 0 /\ tabs = 0
  /\ uniqueLinks = <<>> /\ i = 0
  /\ queue = <<>> /\ visitedUrls = {} /\ pageCount = 0
  /\ currentUrl = 0 /\ retries = 0
  /\ pages = <<>> /\ progress = <<>>
  /\ result = "running" /\ thrown = ""
  /\ handed = <<>> /\ enq = <<>>
  /\ navUrl = 0 /\ navs = 0 /\ waited = 0 /\ limited = FALSE

Seg(n, e) == [name |-> n, ext |-> e]
MkUrl(h, p, t) == [host |-> h, path |-> p, tail |-> t]

PButton == <<Seg("docs", ""), Seg("button", "")>>
PInput == <<Seg("docs", ""), Seg("input", "")>>
PIntro == <<Seg("docs", ""), Seg("guide", ""), Seg("intro", "")>>
PAbout == <<Seg("about", "")>>
PLogo == <<Seg("docs", ""), Seg("logo", "png")>>
PApi == <<Seg("docs", ""), Seg("api", ""), Seg("users", "")>>
PSetup == <<Seg("setup", "")>>

\* https://example.com/docs/button, the seed of the harvest
SeedUrl == MkUrl("example.com", PButton, "")
\* the pages hrefs are harvested from: the seed page and a deeper page
PageUrls == {SeedUrl, MkUrl("example.com", PIntro, "")}

\* href attribute values: an absolute URL, a root-relative path ("/about"),
\* a path relative to the page ("setup"), or a string new URL() rejects
AbsHref(u) == [kind |-> "abs", url |-> u]
RootHref(p) == [kind |-> "root", path |-> p, tail |-> ""]
RelHref(p) == [kind |-> "rel", path |-> p, tail |-> ""]
BadHref == [kind |-> "bad"]

HrefInput == MkUrl("example.com", PInput, "")
HrefAbout == MkUrl("example.com", PAbout, "")

HrefValues ==
  { AbsHref(HrefInput), AbsHref(HrefAbout),
    AbsHref(MkUrl("other.org", PInput, "")),
    AbsHref(MkUrl("example.com", PInput, "#")),
    RootHref(PIntro), RootHref(PLogo), RootHref(PApi),
    RelHref(PSetup), BadHref }

MaxHrefs == 2
HrefLists == SeqsUpTo(HrefValues, MaxHrefs)

\* new URL(href, baseUrl): throws for BadHref
Resolvable(h) == h.kind # "bad"

Dir(p) == IF p = <<>> THEN <<>> ELSE SubSeq(p, 1, Len(p) - 1)

Resolve(h, base) ==
  IF h.kind = "abs" THEN h.url
  ELSE IF h.kind = "root" THEN MkUrl(base.host, h.path, h.tail)
  ELSE MkUrl(base.host, Dir(base.path) \o h.path, h.tail)

\* pathname.includes('/<marker>/'): a whole segment followed by a slash
PathIncludes(p, marker) ==
  \E k \in 1..(Len(p) - 1) : p[k].name = marker /\ p[k].ext = ""

\* pathname.endsWith('.<e>')
PathEndsWith(p, e) == p # <<>> /\ p[Len(p)].ext = e

DocMarkers == {"docs", "components", "design-system", "ui", "patterns", "guide"}
AssetExts == {"png", "jpg", "jpeg", "gif", "svg", "css", "js"}

HasDocMarker(p) == \E m \in DocMarkers : PathIncludes(p, m)

\* the filter of discoverPages (crawler.ts:154-176)
DiscoverKeeps(u, baseUrl) ==
  /\ u.host = baseUrl.host
  /\ HasDocMarker(u.path) \/ PathIncludes(u.path, "api")
  /\ ~PathIncludes(u.path, "api")
  /\ u.tail # "#"
  /\ u.tail # "?"

\* the filter of extractUrls (crawler.ts:1296-1304)
ExtractKeeps(u, baseUrl) ==
  /\ u.host = baseUrl.host
  /\ ~PathIncludes(u.path, "api")
  /\ \A e \in AssetExts : ~PathEndsWith(u.path, e)

\* hrefs that resolve, resolved against base, in document order
ResolveAll(hrefs, base) ==
  LET ok == SelectSeq(hrefs, Resolvable)
  IN  [k \in 1..Len(ok) |-> Resolve(ok[k], base)]

\* discoverPages' page.evaluate(..., url): map, filter
DiscoverLinksOf(hrefs, baseUrl) ==
  SelectSeq(ResolveAll(hrefs, baseUrl), LAMBDA u : DiscoverKeeps(u, baseUrl))

\* extractUrls(page, baseUrl)
ExtractUrlsOf(hrefs, baseUrl) ==
  SetOrder(SelectSeq(ResolveAll(hrefs, baseUrl),
                     LAMBDA u : ExtractKeeps(u, baseUrl)))

\* lnk: the seed, the page the hrefs are on, the hrefs, and what is enqueued
InitLinks ==
  /\ CrawlOff /\ ext = Off /\ bat = Off /\ LaterOff
  /\ \E m \in {"discover", "extract"}, pg \in PageUrls, hs \in HrefLists :
       /\ m = "discover" => pg = SeedUrl
       /\ lnk = [pc |-> "ready", mode |-> m, seedUrl |-> SeedUrl,
                 pageUrl |-> pg, hrefs |-> hs, out |-> <<>>]

\* link-list variant: discoverPages(page, normalizedUrl) on the seed page;
\* its links go into uniqueLinks
DiscoverPagesLinks ==
  /\ lnk.pc = "ready" /\ lnk.mode = "discover"
  /\ lnk' = [lnk EXCEPT !.pc = "done",
                        !.out = DiscoverLinksOf(lnk.hrefs, lnk.seedUrl)]
  /\ UNCHANGED <<crawlVars, ext, bat, laterVars>>

\* queue variant: extractUrls(page, normalizedUrl) on the page at currentUrl
\* (crawler.ts:919); its URLs are pushed on the queue
ExtractUrlsCall ==
  /\ lnk.pc = "ready" /\ lnk.mode = "extract"
  /\ lnk' = [lnk EXCEPT !.pc = "done",
                        !.out = ExtractUrlsOf(lnk.hrefs, lnk.seedUrl)]
  /\ UNCHANGED <<crawlVars, ext, bat, laterVars>>

NextLinks ==
  \/ DiscoverPagesLinks
  \/ ExtractUrlsCall

SpecLinks == InitLinks /\ [][NextLinks]_vars

\* C14: no URL without a documentation marker in its path is enqueued; the
\* seed page /docs/button with the links /docs/input and /about enqueues
\* /docs/input only.
C14_OnlyDocsLinksEnqueued ==
  lnk.pc = "done" =>
    /\ \A k \in 1..Len(lnk.out) : HasDocMarker(lnk.out[k].path)
    /\ (lnk.pageUrl = SeedUrl
        /\ lnk.hrefs = <<AbsHref(HrefInput), AbsHref(HrefAbout)>>)
         => lnk.out = <<HrefInput>>

\* C15: the URLs enqueued are the hrefs of the page resolved against the URL
\* of that page, as far as they resolve and pass the filter of the variant.
C15_ResolvedAgainstPage ==
  lnk.pc = "done" =>
    Range(lnk.out) =
      { u \in Range(ResolveAll(lnk.hrefs, lnk.pageUrl)) :
          IF lnk.mode = "discover" THEN DiscoverKeeps(u, lnk.seedUrl)
                                   ELSE ExtractKeeps(u, lnk.seedUrl) }

\* ======================================================================
\* Content extraction of one rendered page: JSON-LD parsing
\* (crawler.ts:252-260), the code sample scan (crawler.ts:315-372) and the
\* language detection pass (crawler.ts:385-410) of extractPageContent.
\* A page is a sequence of elements in document order; an element is
\* [tag, classes, parent, text]: classes is the class list as a sequence of
\* tokens [pre, rest] (the class name is pre followed by rest), parent the
\* index of the parent element (0: body, which has no classes), text the
\* length of the element's own trimmed text.  Optional values are sets:
\* {} is undefined, {v} is the value v.
\* ======================================================================
Tk(p, r) == [pre |-> p, rest |-> r]
TkPython == Tk("language-", "python")
TkJsx == Tk("language-", "jsx")
TkHljsBash == Tk("hljs-", "bash")
TkCss == Tk("", "css")
TkHighlight == Tk("", "highlight")
Tokens == {TkPython, TkJsx, TkHljsBash, TkCss, TkHighlight}

MaxClasses == 2
ClassLists == SeqsUpTo(Tokens, MaxClasses)
ParentClassLists == {<<>>, <<TkHighlight>>, <<TkPython>>}
TextLens == {0, 9, 20, 21}

El(t, cs, par, len) == [tag |-> t, classes |-> cs, parent |-> par, text |-> len]

\* pages: one element, or an element inside a pre or a div
Docs ==
  { <<El(t, cs, 0, n)>> : t \in {"pre", "code", "div"}, cs \in ClassLists,
                          n \in TextLens }
  \cup
  { <<El(pt, pcs, 0, 0), El(t, cs, 1, n)>> :
      pt \in {"pre", "div"}, pcs \in ParentClassLists,
      t \in {"pre", "code", "div"}, cs \in ClassLists, n \in TextLens }

\* <pre><code class="language-jsx">&lt;Button/&gt;</code></pre>
ButtonDoc == <<El("pre", <<>>, 0, 0), El("code", <<TkJsx>>, 1, 9)>>

\* the pages that also carry JSON-LD blocks
MetaDocs == {ButtonDoc, <<El("pre", <<>>, 0, 21)>>}

RECURSIVE SumText(_, _)
SumText(d, S) ==
  IF S = {} THEN 0
  ELSE LET k == CHOOSE x \in S : TRUE IN d[k].text + SumText(d, S \ {k})

RECURSIVE Ancestors(_, _)
Ancestors(d, k) ==
  IF d[k].parent = 0 THEN {}
  ELSE {d[k].parent} \cup Ancestors(d, d[k].parent)

\* el.textContent, trimmed: own text and the text of all descendants
TextContent(d, k) ==
  d[k].text + SumText(d, {j \in 1..Len(d) : k \in Ancestors(d, j)})

HasClass(e, name) == \E j \in 1..Len(e.classes) : e.classes[j] = Tk("", name)

\* [class*="<sub>"]: the class attribute contains the substring
ClassAttrContains(e, sub) ==
  \E j \in 1..Len(e.classes) :
    \/ e.classes[j].pre = sub
    \/ sub = "hljs" /\ e.classes[j].pre = "hljs-"
    \/ sub = "hljs" /\ e.classes[j] = Tk("", "hljs")

codeSelectors ==
  << "pre code", "pre", ".highlight pre", ".code-block",
     "[class*=language-]", "[class*=hljs]", ".codehilite", ".highlight",
     ".code-sample" >>

Matches(sel, d, k) ==
  LET e == d[k] IN
  CASE sel = "pre code" ->
         e.tag = "code" /\ \E a \in Ancestors(d, k) : d[a].tag = "pre"
    [] sel = "pre" -> e.tag = "pre"
    [] sel = ".highlight pre" ->
         e.tag = "pre" /\ \E a \in Ancestors(d, k) : HasClass(d[a], "highlight")
    [] sel = ".code-block" -> HasClass(e, "code-block")
    [] sel = "[class*=language-]" -> ClassAttrContains(e, "language-")
    [] sel = "[class*=hljs]" -> ClassAttrContains(e, "hljs")
    [] sel = ".codehilite" -> HasClass(e, "codehilite")
    [] sel = ".highlight" -> HasClass(e, "highlight")
    [] sel = ".code-sample" -> HasClass(e, "code-sample")

Vocabulary ==
  {"javascript", "typescript", "jsx", "tsx", "css", "html", "json", "python",
   "bash", "shell"}

\* the language one class name states, if any
LangOf(tk) ==
  IF tk.pre = "language-" THEN {tk.rest}
  ELSE IF tk.pre = "hljs-" THEN {tk.rest}
  ELSE IF tk.rest \in Vocabulary THEN {tk.rest}
  ELSE {}

\* for (const className of [...classList, ...parentClassList]) ... break
RECURSIVE FirstLang(_)
FirstLang(cs) ==
  IF cs = <<>> THEN {}
  ELSE IF LangOf(Head(cs)) # {} THEN LangOf(Head(cs))
  ELSE FirstLang(Tail(cs))

ScanClasses(d, k) ==
  d[k].classes \o (IF d[k].parent = 0 THEN <<>> ELSE d[d[k].parent].classes)

RawSample(d, k) ==
  [el |-> k, code |-> TextContent(d, k), language |-> FirstLang(ScanClasses(d, k))]

\* document.querySelectorAll(selector), empty text skipped
SamplesOf(sel, d) ==
  LET idx == SelectSeq([k \in 1..Len(d) |-> k],
                       LAMBDA k : Matches(sel, d, k) /\ TextContent(d, k) # 0)
  IN  [j \in 1..Len(idx) |-> RawSample(d, idx[j])]

RECURSIVE Flatten(_)
Flatten(ss) == IF ss = <<>> THEN <<>> ELSE Head(ss) \o Flatten(Tail(ss))

\* codeSelectors.forEach(...): the samples pushed, in push order
codeSamplesOf(d) ==
  Flatten([s \in 1..Len(codeSelectors) |-> SamplesOf(codeSelectors[s], d)])

\* JSON-LD blocks: text that parses to an object, text that parses to a
\* falsy value (null, 0, ""), text JSON.parse rejects
BlockKinds == {"object", "falsy", "malformed"}
MaxBlocks == 2
BlockLists == SeqsUpTo(BlockKinds, MaxBlocks)

\* a block parsed without try/catch
RawParse(b) ==
  [threw |-> b = "malformed", val |-> IF b = "malformed" THEN "null" ELSE b]

\* try { return JSON.parse(...) } catch { return null }
TryParse(b) ==
  [threw |-> FALSE, val |-> IF b = "malformed" THEN "null" ELSE b]

\* .filter(Boolean)
Truthy(v) == v = "object"

\* hljs.highlightAuto(code): throws, or a language (if any) and a relevance
MIN_CODE_LENGTH == 20
MIN_RELEVANCE == 5
Highlights ==
  { [throws |-> TRUE, language |-> {}, relevance |-> 0],
    [throws |-> FALSE, language |-> {}, relevance |-> 0],
    [throws |-> FALSE, language |-> {"javascript"}, relevance |-> MIN_RELEVANCE],
    [throws |-> FALSE, language |-> {"javascript"}, relevance |-> MIN_RELEVANCE + 1] }

\* !sample.language
Falsy(l) == l = {} \/ l = {""}

\* detection runs for every long enough sample
DetectWhenLong(sample) == sample.code > MIN_CODE_LENGTH

\* if (!sample.language && sample.code.length > 20)
NeedsDetection(sample) ==
  Falsy(sample.language) /\ sample.code > MIN_CODE_LENGTH

\* every guess is accepted
AnyRelevance(r) == r.language # {}

\* if (highlighted.language && highlighted.relevance > 5)
Relevant(r) == r.language # {} /\ r.relevance > MIN_RELEVANCE

Zero == [num |-> 0, den |-> 1]

\* one element of extractedData.codeSamples.map(...)
Process(sample, hl) ==
  LET run == NeedsDetection(sample)
      ok == run /\ ~hl.throws /\ Relevant(hl)
  IN  [threw |-> FALSE,
       el |-> sample.el, code |-> sample.code, language |-> sample.language,
       detectedLanguage |-> IF ok THEN hl.language ELSE {},
       confidence |-> IF ok THEN {[num |-> hl.relevance, den |-> 100]}
                            ELSE {Zero}]

InitCode ==
  /\ CrawlOff /\ lnk = Off /\ bat = Off /\ LaterOff
  /\ \E d \in Docs, bs \in BlockLists, h \in Highlights :
       /\ bs = <<>> \/ d \in MetaDocs
       /\ ext = [pc |-> "ready", doc |-> d, blocks |-> bs, hl |-> h,
              failed |-> 0, jsonLd |-> <<>>, codeSamples |-> <<>>]

\* one pass of extractPageContent's try block after the navigation
ExtractContent ==
  /\ ext.pc = "ready"
  /\ LET parsed == [k \in 1..Len(ext.blocks) |-> TryParse(ext.blocks[k])]
         raw == codeSamplesOf(ext.doc)
         proc == [k \in 1..Len(raw) |-> Process(raw[k], ext.hl)]
     IN  IF \/ \E k \in 1..Len(parsed) : parsed[k].threw
            \/ \E k \in 1..Len(proc) : proc[k].threw
         THEN ext' = [ext EXCEPT !.pc = "failed", !.failed = @ + 1]
         ELSE ext' = [ext EXCEPT
                        !.pc = "done",
                        !.jsonLd = SelectSeq([k \in 1..Len(parsed) |-> parsed[k].val],
                                             Truthy),
                        !.codeSamples = proc]
  /\ UNCHANGED <<crawlVars, lnk, bat, laterVars>>

NextCode == ExtractContent

SpecCode == InitCode /\ [][NextCode]_vars

\* the first class name of cs that states a language is language-python
PythonFirst(cs) ==
  \E j \in 1..Len(cs) :
    /\ cs[j] = TkPython
    /\ \A m \in 1..(j - 1) : cs[m].pre = "" /\ cs[m].rest \notin Vocabulary

\* C16 as stated: a sample of an element whose class list contains
\* language-python has declared language python, and neither a detected
\* language nor a confidence.
C16_PythonDeclaredRestUnset ==
  ext.pc = "done" =>
    \A k \in 1..Len(ext.codeSamples) :
      LET s == ext.codeSamples[k] IN
      (\E j \in 1..Len(ext.doc[s.el].classes) : ext.doc[s.el].classes[j] = TkPython)
        => /\ s.language = {"python"}
           /\ s.detectedLanguage = {}
           /\ s.confidence = {}

\* C16, amended: when language-python is the first class name (own classes,
\* then the parent's) that states a language, the sample has declared
\* language python whatever the classifier returns, no detected language,
\* and confidence 0.
C16_PythonFirstDeclared ==
  ext.pc = "done" =>
    \A k \in 1..Len(ext.codeSamples) :
      LET s == ext.codeSamples[k] IN
      PythonFirst(ScanClasses(ext.doc, s.el))
        => /\ s.language = {"python"}
           /\ s.detectedLanguage = {}
           /\ s.confidence = {Zero}

C16_Witness ==
  /\ ext.pc = "done"
  /\ ext.hl.language = {"javascript"} /\ ext.hl.relevance > MIN_RELEVANCE
  /\ \E k \in 1..Len(ext.codeSamples) :
       /\ PythonFirst(ScanClasses(ext.doc, ext.codeSamples[k].el))
       /\ ext.codeSamples[k].code > MIN_CODE_LENGTH
       /\ ext.codeSamples[k].language = {"python"}

\* the classifier's guess counts for this sample
Gated(s) ==
  /\ s.code > MIN_CODE_LENGTH
  /\ ~ext.hl.throws /\ ext.hl.language # {} /\ ext.hl.relevance > MIN_RELEVANCE

\* C17 as stated: without a declared language, detectedLanguage and
\* confidence = relevance/100 are set when the code is longer than 20
\* characters and the relevance exceeds 5, and both are unset otherwise.
C17_FallbackGatedElseUnset ==
  ext.pc = "done" =>
    \A k \in 1..Len(ext.codeSamples) :
      LET s == ext.codeSamples[k] IN
      s.language = {} =>
        IF Gated(s)
        THEN /\ s.detectedLanguage = ext.hl.language
             /\ s.confidence = {[num |-> ext.hl.relevance, den |-> 100]}
        ELSE s.detectedLanguage = {} /\ s.confidence = {}

\* C17, amended: without a declared language, detectedLanguage and
\* confidence = relevance/100 are set when the code is longer than 20
\* characters and the relevance exceeds 5; otherwise detectedLanguage is
\* unset and confidence is 0.
C17_FallbackGatedElseZero ==
  ext.pc = "done" =>
    \A k \in 1..Len(ext.codeSamples) :
      LET s == ext.codeSamples[k] IN
      s.language = {} =>
        IF Gated(s)
        THEN /\ s.detectedLanguage = ext.hl.language
             /\ s.confidence = {[num |-> ext.hl.relevance, den |-> 100]}
        ELSE s.detectedLanguage = {} /\ s.confidence = {Zero}

C17_Witness ==
  /\ ext.pc = "done"
  /\ ext.hl.language = {"javascript"} /\ ext.hl.relevance = MIN_RELEVANCE
  /\ \E k \in 1..Len(ext.codeSamples) :
       /\ ext.codeSamples[k].language = {}
       /\ ext.codeSamples[k].code = MIN_CODE_LENGTH + 1
       /\ ext.codeSamples[k].detectedLanguage = {}

\* C18: the page <pre><code class="language-jsx">...</code></pre> yields
\* exactly one code sample, with declared language jsx and non-empty code.
C18_OneSamplePerBlock ==
  (ext.pc = "done" /\ ext.doc = ButtonDoc) =>
    /\ Len(ext.codeSamples) = 1
    /\ ext.codeSamples[1].language = {"jsx"}
    /\ ext.codeSamples[1].code > 0

\* C19: a JSON-LD block that does not parse and a classifier exception fail
\* no attempt: the pass ends with a result, every block holding an object is
\* in jsonLd, and every code sample of the page is in codeSamples.
C19_ParseFailuresIsolated ==
  ext.pc # "ready" =>
    /\ ext.pc = "done" /\ ext.failed = 0
    /\ ext.jsonLd = SelectSeq(ext.blocks, LAMBDA b : b = "object")
    /\ Len(ext.codeSamples) = Len(codeSamplesOf(ext.doc))
    /\ \A k \in 1..Len(ext.codeSamples) :
         ext.codeSamples[k].code = codeSamplesOf(ext.doc)[k].code

C19_Witness ==
  /\ ext.pc = "done"
  /\ ext.blocks = <<"malformed", "object">> /\ ext.jsonLd = <<"object">>
  /\ ext.hl.throws
  /\ \E k \in 1..Len(ext.codeSamples) : NeedsDetection(ext.codeSamples[k])

\* ======================================================================
\* batchProcessPages (part_000:535-596).  Pages are numbered 1..n; a
\* processor invocation is in flight from the call processor(page, index)
\* until the promise it returned settles.  Invocations settle in any order.
\* ======================================================================
DEFAULT_BATCH_SIZE == 10
DEFAULT_CONCURRENCY == 3
MaxBatchPages == 4
MaxBatchSize == 2

BatchSizes == 1..MaxBatchSize \cup {DEFAULT_BATCH_SIZE}
Concurrencies == 1..DEFAULT_CONCURRENCY
\* the processor fulfils with a value, fulfils with null, or rejects
ProcessorOutcomes == {"value", "null", "reject"}

\* pages.slice(i, i + batchSize), as page numbers
Batch(b) == (b.i + 1)..Min(b.i + b.batchSize, b.n)

\* batchPromises.slice(0, concurrency)
FirstSlice(b) == {k \in Batch(b) : k <= b.i + b.concurrency}

\* batchPromises.slice(concurrency)
RestSlice(b) == Batch(b) \ FirstSlice(b)

\* every result of the batch is kept
CollectedUnfiltered(b) ==
  [j \in 1..Cardinality(Batch(b)) |-> b.i + j]

\* batchResults.forEach(...): the fulfilled non-null values, in batch order
Collected(b) ==
  SelectSeq([j \in 1..Cardinality(Batch(b)) |-> b.i + j],
            LAMBDA k : b.outcome[k] = "value")

InitBatch ==
  /\ CrawlOff /\ lnk = Off /\ ext = Off /\ LaterOff
  /\ \E n \in 0..MaxBatchPages, bs \in BatchSizes, c \in Concurrencies :
       bat = [pc |-> "loop", n |-> n, batchSize |-> bs, concurrency |-> c,
              i |-> 0, inflight |-> {},
              outcome |-> [k \in 1..n |-> "pending"],
              results |-> <<>>, errors |-> <<>>, onError |-> <<>>,
              onProgress |-> <<>>]

\* loop head with i < pages.length: batch.map calls the processor for every
\* page of the batch, then the function awaits the first slice
BatchStart ==
  /\ bat.pc = "loop" /\ bat.i < bat.n
  /\ bat' = [bat EXCEPT !.pc = "awaitFirst", !.inflight = Batch(bat)]
  /\ UNCHANGED <<crawlVars, lnk, ext, laterVars>>

\* the promise of one invocation settles; on rejection the catch block of
\* the map callback records the error and calls onError
Settle ==
  /\ \E k \in bat.inflight, o \in ProcessorOutcomes :
       bat' = [bat EXCEPT
                 !.inflight = @ \ {k},
                 !.outcome[k] = o,
                 !.errors = IF o = "reject" THEN Append(@, k) ELSE @,
                 !.onError = IF o = "reject" THEN Append(@, k) ELSE @]
  /\ UNCHANGED <<crawlVars, lnk, ext, laterVars>>

\* the code after the awaits: collect, report progress, next batch
Collect(b) ==
  [b EXCEPT !.pc = "loop",
            !.results = @ \o Collected(b),
            !.onProgress = Append(@, <<Min(b.i + b.batchSize, b.n), b.n>>),
            !.i = @ + b.batchSize]

\* await Promise.allSettled(batchPromises.slice(0, concurrency)) resumes
AwaitFirst ==
  /\ bat.pc = "awaitFirst"
  /\ FirstSlice(bat) \cap bat.inflight = {}
  /\ bat' = IF Cardinality(Batch(bat)) > bat.concurrency
            THEN [bat EXCEPT !.pc = "awaitRest"]
            ELSE Collect(bat)
  /\ UNCHANGED <<crawlVars, lnk, ext, laterVars>>

\* await Promise.allSettled(remainingPromises) resumes
AwaitRest ==
  /\ bat.pc = "awaitRest"
  /\ RestSlice(bat) \cap bat.inflight = {}
  /\ bat' = Collect(bat)
  /\ UNCHANGED <<crawlVars, lnk, ext, laterVars>>

\* loop head with i >= pages.length: return results
BatchReturn ==
  /\ bat.pc = "loop" /\ bat.i >= bat.n
  /\ bat' = [bat EXCEPT !.pc = "returned"]
  /\ UNCHANGED <<crawlVars, lnk, ext, laterVars>>

NextBatch ==
  \/ BatchStart
  \/ Settle
  \/ AwaitFirst
  \/ AwaitRest
  \/ BatchReturn

SpecBatch == InitBatch /\ [][NextBatch]_vars

\* C20: the number of processor invocations started and not yet settled
\* never exceeds the concurrency cap.
C20_InFlightWithinCap ==
  bat.pc # "off" => Cardinality(bat.inflight) <= bat.concurrency

\* C21: when batchProcessPages has returned, the processor was run for every
\* page, the results are the pages whose processor fulfilled with a non-null
\* value, in page order, and onError was called exactly once for each page
\* whose processor rejected and for no other page.
C21_FailuresIsolated ==
  bat.pc = "returned" =>
    /\ \A k \in 1..bat.n : bat.outcome[k] \in ProcessorOutcomes
    /\ bat.results = SelectSeq([k \in 1..bat.n |-> k],
                               LAMBDA k : bat.outcome[k] = "value")
    /\ \A k \in 1..bat.n :
         Cardinality({j \in 1..Len(bat.onError) : bat.onError[j] = k})
           = IF bat.outcome[k] = "reject" THEN 1 ELSE 0

\* C21 witness: a run over several batches has returned with a rejected
\* page, a null page and a later page whose value was collected.
C21_Witness ==
  /\ bat.pc = "returned" /\ bat.n > bat.batchSize
  /\ \E j, k, m \in 1..bat.n :
       /\ j < m
       /\ bat.outcome[j] = "reject" /\ bat.outcome[k] = "null"
       /\ bat.outcome[m] = "value"
       /\ bat.results # <<>>

\* ---- termination of the crawl ----
\* the steps of crawlDesignSystem itself; Abort is the caller's step
Run ==
  \/ Launch
  \/ QLoop
  \/ QNewPage
  \/ QGoto
  \/ QExtract
  \/ QUrls
  \/ LNewPage
  \/ LDiscover
  \/ LLoop
  \/ LExtract
  \/ Close

\* every awaited promise settles, so the async function keeps taking steps
FairSpec == Spec /\ WF_vars(Run)

\* C22: every crawl run ends; a queue-variant run that reached its main loop
\* ends by returning the array; and the main loop is left only with an empty
\* frontier, with the page bound reached, or with cancellation seen.
C22_CrawlTerminates ==
  /\ <>(result # "running")
  /\ [](pc = "q_loop" => <>(result = "returned"))
  /\ [][(pc = "q_loop" /\ pc' = "close")
          => (queue = <<>> \/ pageCount >= MAX_PAGES \/ aborted)]_vars

\* C22 witness: a queue-variant run has returned at the page bound with
\* links left in the frontier and after a URL that failed.
C22_Witness ==
  /\ variant = "queue" /\ result = "returned"
  /\ pageCount = MAX_PAGES /\ queue # <<>>
  /\ Len(handed) > Len(pages)

\* ======================================================================
\* saveToLocalStorage / loadFromLocalStorage (part_001:521-549) with
\* compressPages / decompressPages (part_001:584-637).
\* A page keeps the fields the two conversions treat differently: the text
\* content (a text is its length: substring keeps a prefix), the paragraphs
\* (numbered 1..n), the optional tables and the optional errors.  The other
\* fields are copied field by field.  Optional values are sets.
\* ======================================================================
TEXT_LIMIT == 5000
PARAGRAPH_LIMIT == 10
MaxStoredPages == 1

StoreKeys == {"crawl-a", "crawl-b"}

StorePage(len, np, tb, er) ==
  [id |-> "page-1", textContent |-> [len |-> len],
   paragraphs |-> [k \in 1..np |-> k], tables |-> tb, errors |-> er]

\* a page within both limits, and pages that differ from it in one respect
StorePages ==
  { StorePage(TEXT_LIMIT, PARAGRAPH_LIMIT, {}, {}),
    StorePage(TEXT_LIMIT, PARAGRAPH_LIMIT, {}, {<<"timeout">>}),
    StorePage(TEXT_LIMIT + 1, PARAGRAPH_LIMIT, {}, {}),
    StorePage(TEXT_LIMIT, PARAGRAPH_LIMIT + 1, {}, {}),
    StorePage(TEXT_LIMIT, PARAGRAPH_LIMIT, {"table"}, {}) }

StorePageLists == SeqsUpTo(StorePages, MaxStoredPages)

\* text.substring(0, n)
Substring(t, n) == [len |-> Min(t.len, n)]

\* one element of compressPages' pages.map(...)
compressPage(page) ==
  [i |-> {page.id},
   t |-> {Substring(page.textContent, TEXT_LIMIT)},
   p |-> {Slice(page.paragraphs, PARAGRAPH_LIMIT)},
   e |-> page.errors]

compressPages(ps) ==
  [count |-> Len(ps), pages |-> [k \in 1..Len(ps) |-> compressPage(ps[k])]]

\* JSON.stringify of an object: keys whose value is undefined are left out
StringifyObject(o) == [k \in {x \in DOMAIN o : o[x] # {}} |-> o[k]]

JsonStringify(c) ==
  [count |-> c.count,
   pages |-> [k \in 1..Len(c.pages) |-> StringifyObject(c.pages[k])]]

\* reading a property of a parsed object: undefined when the key is absent
Prop(o, k) == IF k \in DOMAIN o THEN o[k] ELSE {}

OrEmpty(v) == IF v = {} THEN <<>> ELSE CHOOSE x \in v : TRUE

\* one element of decompressPages' compressed.pages.map(...)
decompressPage(p) ==
  [id |-> CHOOSE x \in Prop(p, "i") : TRUE,
   textContent |-> CHOOSE x \in Prop(p, "t") : TRUE,
   paragraphs |-> OrEmpty(Prop(p, "p")),
   tables |-> {},
   errors |-> Prop(p, "e")]

decompressPages(c) == [k \in 1..Len(c.pages) |-> decompressPage(c.pages[k])]

\* sto: the stored strings, what the latest successful save under each key
\* was given, and the latest call with its return value
InitStore ==
  /\ CrawlOff /\ lnk = Off /\ ext = Off /\ bat = Off
  /\ red = Off /\ srch = Off /\ pds = Off /\ oll = Off
  /\ sto = [pc |-> "store",
            items |-> [k \in StoreKeys |-> {}],
            saved |-> [k \in StoreKeys |-> {}],
            call |-> "none", key |-> "none", ret |-> {}]

\* saveToLocalStorage(key, pages); setItem throws when the quota is exceeded
saveToLocalStorage ==
  /\ sto.pc = "store"
  /\ \E key \in StoreKeys, ps \in StorePageLists, quotaExceeded \in BOOLEAN :
       IF quotaExceeded
       THEN sto' = [sto EXCEPT !.call = "save", !.key = key, !.ret = {FALSE}]
       ELSE sto' = [sto EXCEPT
                      !.items[key] = {JsonStringify(compressPages(ps))},
                      !.saved[key] = {ps},
                      !.call = "save", !.key = key, !.ret = {TRUE}]
  /\ UNCHANGED <<crawlVars, lnk, ext, bat, red, srch, pds, oll>>

\* loadFromLocalStorage(key)
loadFromLocalStorage ==
  /\ sto.pc = "store"
  /\ \E key \in StoreKeys :
       sto' = [sto EXCEPT
                 !.call = "load", !.key = key,
                 !.ret = IF sto.items[key] = {} THEN {}
                         ELSE {decompressPages(CHOOSE x \in sto.items[key] : TRUE)}]
  /\ UNCHANGED <<crawlVars, lnk, ext, bat, red, srch, pds, oll>>

NextStore ==
  \/ saveToLocalStorage
  \/ loadFromLocalStorage

SpecStore == InitStore /\ [][NextStore]_vars

\* C23: loading a key that was saved returns the pages that were saved
\* under it.
C23_SaveLoadRoundTrip ==
  (sto.pc = "store" /\ sto.call = "load" /\ sto.saved[sto.key] # {}) =>
    sto.ret = sto.saved[sto.key]

\* ======================================================================
\* BulkDataManager.createBackup / restoreFromBackup / getBackupList
\* (part_002:284-332) on localStorage.  A backup key `backup-<ms>` is the
\* millisecond it was made in; the pages stored under a key are named by
\* the number of the createBackup call that stored them.
\* ======================================================================
\* 10 in the code; scaled down
MAX_BACKUPS == 3
MaxBackupCalls == MAX_BACKUPS + 2

BackupKeys == 1..MaxBackupCalls

\* the last n elements of xs
LastN(xs, n) == SubSeq(xs, Len(xs) - Min(n, Len(xs)) + 1, Len(xs))

\* sto: the clock, the items stored under the backup keys, the parsed value
\* of the item 'backup-list', the keys of all backups made, the latest call
InitBackup ==
  /\ CrawlOff /\ lnk = Off /\ ext = Off /\ bat = Off
  /\ red = Off /\ srch = Off /\ pds = Off /\ oll = Off
  /\ sto = [pc |-> "backup", now |-> 1,
            items |-> [k \in BackupKeys |-> {}],
            list |-> <<>>, made |-> <<>>, calls |-> 0,
            call |-> "none", ret |-> {}]

\* createBackup(pages): time may or may not have moved on since the latest
\* call; saveToLocalStorage returns false when the quota is exceeded
createBackup ==
  /\ sto.pc = "backup"
  /\ sto.calls < MaxBackupCalls
  /\ \E t \in {sto.now, sto.now + 1}, success \in BOOLEAN :
       /\ t \in BackupKeys
       /\ IF ~success
          THEN sto' = [sto EXCEPT !.now = t, !.calls = @ + 1,
                                  !.call = "create", !.ret = {"threw"}]
          ELSE LET n == Len(sto.made) + 1
                   pushed == Append(sto.list, t)
                   stored == [sto.items EXCEPT ![t] = {n}]
               IN  sto' = [sto EXCEPT
                     !.now = t,
                     !.items = IF Len(pushed) > MAX_BACKUPS
                               THEN [stored EXCEPT ![Head(pushed)] = {}]
                               ELSE stored,
                     !.list = IF Len(pushed) > MAX_BACKUPS
                              THEN Tail(pushed) ELSE pushed,
                     !.made = Append(@, t),
                     !.calls = @ + 1,
                     !.call = "create", !.ret = {t}]
  /\ UNCHANGED <<crawlVars, lnk, ext, bat, red, srch, pds, oll>>

\* restoreFromBackup(key) for a key of getBackupList()
restoreFromBackup ==
  /\ sto.pc = "backup"
  /\ \E j \in 1..Len(sto.list) :
       sto' = [sto EXCEPT !.call = "restore", !.ret = sto.items[sto.list[j]]]
  /\ UNCHANGED <<crawlVars, lnk, ext, bat, red, srch, pds, oll>>

NextBackup ==
  \/ createBackup
  \/ restoreFromBackup

SpecBackup == InitBackup /\ [][NextBackup]_vars

\* C24: the backup list holds the keys of the (at most) MAX_BACKUPS most recent
\* backups, every key of the list still has its item, and a restore of a
\* listed key returns pages.
C24_BackupsRestorable ==
  sto.pc = "backup" =>
    /\ Len(sto.list) <= MAX_BACKUPS
    /\ sto.list = LastN(sto.made, MAX_BACKUPS)
    /\ \A j \in 1..Len(sto.list) : sto.items[sto.list[j]] # {}
    /\ sto.call = "restore" => sto.ret # {}

\* ======================================================================
\* designSystemSlice (part_005:28-101): the reducers on state.sources and
\* state.components.  A url and an id are sequences of characters.
\* ======================================================================
\* String.prototype.toLowerCase, on the characters the urls use
LowerChar(c) == IF c = "A" THEN "a" ELSE IF c = "B" THEN "b" ELSE c

\* /[^a-z0-9]/gi
AlphaNum(c) == LowerChar(c) \in {"a", "b", "c", "0", "1"}

\* `source-${url.replace(/[^a-z0-9]/gi, '-').toLowerCase()}`
SourceIdOf(url) ==
  <<"source-">> \o
    [k \in 1..Len(url) |-> IF AlphaNum(url[k]) THEN LowerChar(url[k]) ELSE "-"]

SourceUrls == { <<"a", ".", "c">>, <<"A", ".", "c">>, <<"b", ".", "c">> }

\* the sources an imported JSON file may hold: with the id the store would
\* give the url, or with an id of their own
ImportedSources ==
  UNION { { [id |-> SourceIdOf(u), url |-> u], [id |-> <<"imported">>, url |-> u] } :
            u \in SourceUrls }

MaxImport == 2
ImportLists == SeqsUpTo(ImportedSources, MaxImport)

\* addSource reducer
AddSourceTo(sources, url) ==
  IF \E k \in 1..Len(sources) : sources[k].id = SourceIdOf(url)
  THEN sources
  ELSE Append(sources, [id |-> SourceIdOf(url), url |-> url])

\* importSources reducer
RECURSIVE ImportInto(_, _)
ImportInto(sources, payload) ==
  IF payload = <<>> THEN sources
  ELSE ImportInto(
         IF \E k \in 1..Len(sources) : sources[k].url = Head(payload).url
         THEN sources ELSE Append(sources, Head(payload)),
         Tail(payload))

InitSources ==
  /\ CrawlOff /\ lnk = Off /\ ext = Off /\ bat = Off
  /\ sto = Off /\ srch = Off /\ pds = Off /\ oll = Off
  /\ red = [pc |-> "sources", sources |-> <<>>, components |-> <<>>]

addSource ==
  /\ red.pc = "sources"
  /\ \E u \in SourceUrls :
       red' = [red EXCEPT !.sources = AddSourceTo(@, u)]
  /\ UNCHANGED <<crawlVars, lnk, ext, bat, sto, srch, pds, oll>>

importSources ==
  /\ red.pc = "sources"
  /\ \E payload \in ImportLists :
       red' = [red EXCEPT !.sources = ImportInto(@, payload)]
  /\ UNCHANGED <<crawlVars, lnk, ext, bat, sto, srch, pds, oll>>

removeSource ==
  /\ red.pc = "sources"
  /\ \E k \in 1..Len(red.sources) :
       LET id == red.sources[k].id IN
       red' = [red EXCEPT
                 !.sources = SelectSeq(@, LAMBDA x : x.id # id),
                 !.components = SelectSeq(@, LAMBDA c : c.sourceId # id)]
  /\ UNCHANGED <<crawlVars, lnk, ext, bat, sto, srch, pds, oll>>

NextSources ==
  \/ addSource
  \/ importSources
  \/ removeSource

SpecSources == InitSources /\ [][NextSources]_vars

\* C25: no two entries of state.sources have the same url.
C25_SourceUrlsUnique ==
  red.pc = "sources" =>
    \A j, k \in 1..Len(red.sources) :
      red.sources[j].url = red.sources[k].url => j = k

\* ======================================================================
\* searchPages (part_000:796-866) with a literal query.  Strings are
\* sequences of characters.  The pattern is one RegExp object with the g
\* flag: RegExp.prototype.test starts at the pattern's lastIndex, leaves
\* lastIndex behind the match it found and resets it to 0 when it finds
\* none.
\* ======================================================================
\* the characters equal under the flags of the pattern (i unless caseSensitive)
SameChar(a, b, caseSensitive) ==
  IF caseSensitive THEN a = b ELSE LowerChar(a) = LowerChar(b)

\* the query matches str at offset p (0-based)
MatchAt(str, q, caseSensitive, p) ==
  /\ p + Len(q) <= Len(str)
  /\ \A j \in 1..Len(q) : SameChar(str[p + j], q[j], caseSensitive)

\* searchPattern.test(str) with the pattern's lastIndex at li
Test(str, q, caseSensitive, li) ==
  LET found == {p \in li..Len(str) : MatchAt(str, q, caseSensitive, p)}
  IN  IF found = {} THEN [ok |-> FALSE, li |-> 0]
      ELSE LET p == CHOOSE x \in found : \A y \in found : x <= y
           IN  [ok |-> TRUE, li |-> p + Len(q)]

\* strs.some(str => searchPattern.test(str))
RECURSIVE TestSome(_, _, _, _)
TestSome(strs, q, caseSensitive, li) ==
  IF strs = <<>> THEN [ok |-> FALSE, li |-> li]
  ELSE LET r == Test(Head(strs), q, caseSensitive, li)
       IN  IF r.ok THEN r ELSE TestSome(Tail(strs), q, caseSensitive, r.li)

\* [a, b].join(' ')
Join(strs) ==
  IF strs = <<>> THEN <<>>
  ELSE LET RECURSIVE J(_)
           J(xs) == IF Len(xs) = 1 THEN xs[1] ELSE xs[1] \o <<" ">> \o J(Tail(xs))
       IN  J(strs)

\* the code and the non-empty context of every sample, in test order
RECURSIVE SampleTexts(_)
SampleTexts(samples) ==
  IF samples = <<>> THEN <<>>
  ELSE <<Head(samples).code>>
       \o (IF Head(samples).context = <<>> THEN <<>> ELSE <<Head(samples).context>>)
       \o SampleTexts(Tail(samples))

\* the strings of one field of a page
FieldTexts(page, field) ==
  CASE field = "textContent" -> <<page.textContent>>
    [] field = "headings" -> page.headings
    [] field = "codeSamples" -> SampleTexts(page.codeSamples)
    [] field = "metadata" -> <<Join(page.metadata)>>

SearchFields == <<"textContent", "headings", "codeSamples", "metadata">>

\* the filter callback for one page: the fields in the order of the code
RECURSIVE PageTest(_, _, _, _, _, _)
PageTest(page, q, caseSensitive, searchIn, k, li) ==
  IF k > Len(SearchFields) THEN [ok |-> FALSE, li |-> li]
  ELSE IF SearchFields[k] \notin searchIn
       THEN PageTest(page, q, caseSensitive, searchIn, k + 1, li)
       ELSE LET r == TestSome(FieldTexts(page, SearchFields[k]), q, caseSensitive, li)
            IN  IF r.ok THEN r
                ELSE PageTest(page, q, caseSensitive, searchIn, k + 1, r.li)

\* pages.filter(...)
RECURSIVE FilterPages(_, _, _, _, _)
FilterPages(ps, q, caseSensitive, searchIn, li) ==
  IF ps = <<>> THEN <<>>
  ELSE LET r == PageTest(Head(ps), q, caseSensitive, searchIn, 1, li)
       IN  (IF r.ok THEN <<Head(ps)>> ELSE <<>>)
           \o FilterPages(Tail(ps), q, caseSensitive, searchIn, r.li)

\* limit ? results.slice(0, limit) : results
CutToLimit(results, limit) ==
  IF limit = {} \/ limit = {0} THEN results
  ELSE Slice(results, CHOOSE n \in limit : TRUE)

SearchPage(t, h, c, m) ==
  [textContent |-> t, headings |-> h, codeSamples |-> c, metadata |-> m]

SearchQuery == <<"a", "b">>

SearchPageSet ==
  { SearchPage(<<"a", "b">>, <<>>, <<>>, <<>>),
    SearchPage(<<"c", "a", "b">>, <<>>, <<>>, <<>>),
    SearchPage(<<"A", "B">>, <<>>, <<>>, <<>>),
    SearchPage(<<"c">>, << <<"c", "a", "b">>, <<"a", "b">> >>, <<>>, <<>>),
    SearchPage(<<"c">>, <<>>, <<[code |-> <<"c">>, context |-> <<"a", "b">>]>>, <<>>),
    SearchPage(<<"c">>, <<>>, <<>>, << <<"a">>, <<"b">> >>),
    SearchPage(<<"c">>, <<>>, <<>>, << <<"c">>, <<"a", "b">> >>) }

MaxSearchPages == 2
SearchPageLists == SeqsUpTo(SearchPageSet, MaxSearchPages)
SearchIns == (SUBSET Range(SearchFields)) \ {{}}
SearchLimits == {{}, {1}}

InitSearch ==
  /\ CrawlOff /\ lnk = Off /\ ext = Off /\ bat = Off
  /\ sto = Off /\ red = Off /\ pds = Off /\ oll = Off
  /\ \E ps \in SearchPageLists, cs \in BOOLEAN, si \in SearchIns,
        lim \in SearchLimits :
       srch = [pc |-> "ready", pages |-> ps, query |-> SearchQuery,
               caseSensitive |-> cs, searchIn |-> si, limit |-> lim,
               results |-> <<>>]

searchPages ==
  /\ srch.pc = "ready"
  /\ srch' = [srch EXCEPT
                !.pc = "done",
                !.results = CutToLimit(
                    FilterPages(srch.pages, srch.query, srch.caseSensitive,
                                srch.searchIn, 0),
                    srch.limit)]
  /\ UNCHANGED <<crawlVars, lnk, ext, bat, sto, red, pds, oll>>

NextSearch == searchPages

SpecSearch == InitSearch /\ [][NextSearch]_vars

\* a selected field of the page contains a match of the query
PageMatches(page, q, caseSensitive, searchIn) ==
  \E f \in searchIn :
    \E k \in 1..Len(FieldTexts(page, f)) :
      \E p \in 0..Len(FieldTexts(page, f)[k]) :
        MatchAt(FieldTexts(page, f)[k], q, caseSensitive, p)

\* C26: the result is the sequence of the pages with a match in a selected
\* field, in input order, cut to the limit.
C26_SearchReturnsMatches ==
  srch.pc = "done" =>
    LET all == SelectSeq(srch.pages,
                 LAMBDA pg : PageMatches(pg, srch.query, srch.caseSensitive,
                                         srch.searchIn))
    IN  srch.results = IF srch.limit = {} THEN all
                       ELSE Slice(all, CHOOSE n \in srch.limit : TRUE)

\* ======================================================================
\* One crawl from the CrawlerButton: CrawlerButton.handleCrawl
\* (CrawlerButton.tsx:34-127), which calls onPagesExtracted =
\* EnhancedURLInput.handlePagesExtracted (EnhancedURLInput.tsx:49-68),
\* which calls onNewUrl = Home.handleNewUrl and onPagesExtracted =
\* Home.handlePagesExtracted (part_007:37-72), on the redux store.
\* A heading carries the verdict isComponentHeading gives its text.
\* ======================================================================
Heading(t, c) == [text |-> t, isComponent |-> c]

CrawledPage(id, url, hs) == [id |-> id, url |-> url, headings |-> hs]

CrawledPageSet ==
  { CrawledPage("page-1", <<"a", ".", "c">>, <<Heading("Button", TRUE)>>),
    CrawledPage("page-2", <<"a", ".", "c">>,
                <<Heading("Input", TRUE), Heading("Install", FALSE)>>),
    CrawledPage("page-3", <<"b", ".", "c">>, <<Heading("Card", TRUE)>>),
    CrawledPage("page-4", <<"b", ".", "c">>, <<>>) }

MaxCrawledPages == 2
CrawledPageLists ==
  {ps \in SeqsUpTo(CrawledPageSet, MaxCrawledPages) : NoDup(ps)}

\* extractComponentsFromPage: one component per component heading
extractComponentsFromPage(page) ==
  LET hs == SelectSeq(page.headings, LAMBDA h : h.isComponent)
  IN  [k \in 1..Len(hs) |->
         [id |-> <<"component", page.id, hs[k].text>>,
          sourceId |-> page.url, name |-> hs[k].text]]

\* convertPagesToComponents
convertPagesToComponents(ps) ==
  Flatten([k \in 1..Len(ps) |-> extractComponentsFromPage(ps[k])])

\* components.forEach(c => dispatch(addComponent({...c, sourceId})))
WithSourceId(cs, sourceId) ==
  [k \in 1..Len(cs) |-> [cs[k] EXCEPT !.sourceId = sourceId]]

InitCrawlUi ==
  /\ CrawlOff /\ lnk = Off /\ ext = Off /\ bat = Off
  /\ sto = Off /\ srch = Off /\ pds = Off /\ oll = Off
  /\ \E u \in SourceUrls, named \in BOOLEAN, ps \in CrawledPageLists,
        ok \in BOOLEAN :
       red = [pc |-> "crawl", url |-> u, inputName |-> named,
              responseOk |-> ok, pages |-> ps,
              sources |-> <<>>, components |-> <<>>]

\* handleCrawl after the response arrived, with the callbacks it calls
handleCrawl ==
  /\ red.pc = "crawl"
  /\ IF ~red.responseOk
     THEN red' = [red EXCEPT !.pc = "crawlFailed"]
     ELSE LET fromButton == convertPagesToComponents(red.pages)
              s1 == AddSourceTo(red.sources, red.url)
              c1 == red.components
                      \o WithSourceId(fromButton, SourceIdOf(red.url))
              \* EnhancedURLInput.handlePagesExtracted: onNewUrl
              s2 == IF red.inputName THEN AddSourceTo(s1, red.url) ELSE s1
              \* Home.handlePagesExtracted
              c2 == c1 \o convertPagesToComponents(red.pages)
          IN  red' = [red EXCEPT !.pc = "crawlDone",
                                 !.sources = s2, !.components = c2]
  /\ UNCHANGED <<crawlVars, lnk, ext, bat, sto, srch, pds, oll>>

NextCrawlUi == handleCrawl

SpecCrawlUi == InitCrawlUi /\ [][NextCrawlUi]_vars

\* C27: after the crawl, every component of the returned pages is in
\* state.components exactly once, and the sourceId of every component in
\* the store is the id of a source in state.sources.
C27_ComponentsOnceWithSource ==
  red.pc = "crawlDone" =>
    /\ \A j \in 1..Len(convertPagesToComponents(red.pages)) :
         Cardinality({k \in 1..Len(red.components) :
                        red.components[k].id
                          = convertPagesToComponents(red.pages)[j].id}) = 1
    /\ \A k \in 1..Len(red.components) :
         \E m \in 1..Len(red.sources) :
           red.sources[m].id = red.components[k].sourceId

\* C29: in the queue-driven crawl every tab opened for a URL is closed before
\* the next URL is taken from the queue, so at most one tab is open at any
\* time, also after a URL whose processing failed.
C29_OneTabAtATime ==
  variant = "queue" =>
    /\ tabs <= 1
    /\ pc \in {"q_loop", "q_newPage"} => tabs = 0

\* ======================================================================
\* processDesignSystem (part_003:70-116) run by SourceList.handleRefresh
\* (SourceList.tsx:66-98).  `reported` is the sequence of statuses passed to
\* onUpdateSource, `store` the sequence of statuses dispatched to the store.
\* ======================================================================
\* how a fetch and the reading of its body end
FetchOutcomes == {"ok", "notOk", "networkError", "badJson"}

\* the crawl always counts as succeeded
CrawlAlwaysSucceeds(o) == TRUE

\* crawlDesignSystemSource resolves
CrawlSucceeded(o) == o = "ok"

\* onProgress is called once the response is ok, before the body is read
ProgressCalled(o) == o \in {"ok", "badJson"}

\* the results of /api/analyze: objects with or without a name
MaxResults == 3
ResultLists == SeqsUpTo({"named", "unnamed"}, MaxResults)
SourceStatuses == {"idle", "crawling", "analyzing", "complete", "error"}

InitProcess ==
  /\ CrawlOff /\ lnk = Off /\ ext = Off /\ bat = Off
  /\ sto = Off /\ red = Off /\ srch = Off /\ oll = Off
  /\ \E st \in SourceStatuses, rs \in ResultLists :
       pds = [pc |-> "start", results |-> rs, store |-> <<st>>,
              reported |-> <<>>, crawl |-> "pending", analyze |-> "pending",
              added |-> 0, end |-> "running"]

\* handleRefresh up to the first await of processDesignSystem
handleRefresh ==
  /\ pds.pc = "start"
  /\ pds' = [pds EXCEPT !.pc = "crawl",
                        !.store = @ \o <<"idle", "crawling">>,
                        !.reported = Append(@, "crawling")]
  /\ UNCHANGED <<crawlVars, lnk, ext, bat, sto, red, srch, oll>>

\* the catch block of processDesignSystem and the one of handleRefresh
Failed(p) ==
  [p EXCEPT !.pc = "over",
            !.reported = Append(@, "error"),
            !.store = @ \o <<"error", "error">>,
            !.end = "rejected"]

\* await crawlDesignSystemSource(source, onProgress) settles
CrawlSettles ==
  /\ pds.pc = "crawl"
  /\ \E o \in FetchOutcomes :
       LET p == [pds EXCEPT
                   !.crawl = o,
                   !.store = IF ProgressCalled(o) THEN Append(@, "crawling") ELSE @]
       IN  IF CrawlSucceeded(o)
           THEN pds' = [p EXCEPT !.pc = "analyze",
                                 !.reported = Append(@, "analyzing"),
                                 !.store = Append(@, "analyzing")]
           ELSE pds' = Failed(p)
  /\ UNCHANGED <<crawlVars, lnk, ext, bat, sto, red, srch, oll>>

\* await analyzeContent(chunks) settles
AnalyzeSettles ==
  /\ pds.pc = "analyze"
  /\ \E o \in FetchOutcomes :
       LET p == [pds EXCEPT !.analyze = o]
       IN  IF o = "ok"
           THEN pds' = [p EXCEPT
                          !.pc = "over",
                          !.added = Len(SelectSeq(pds.results,
                                                  LAMBDA r : r = "named")),
                          !.reported = Append(@, "complete"),
                          !.store = Append(@, "complete"),
                          !.end = "resolved"]
           ELSE pds' = Failed(p)
  /\ UNCHANGED <<crawlVars, lnk, ext, bat, sto, red, srch, oll>>

NextProcess ==
  \/ handleRefresh
  \/ CrawlSettles
  \/ AnalyzeSettles

SpecProcess == InitProcess /\ [][NextProcess]_vars

\* C28: the first status reported is crawling; analyzing is reported only
\* after the crawl request succeeded; a finished run has reported complete
\* or error last; complete and error are never both reported; the run has
\* rejected exactly if it reported error.
C28_StatusOrder ==
  pds.pc # "off" =>
    LET r == pds.reported IN
    /\ r # <<>> => r[1] = "crawling"
    /\ pds.pc # "start" => r # <<>>
    /\ "analyzing" \in Range(r) => pds.crawl = "ok"
    /\ pds.pc = "over" => r[Len(r)] \in {"complete", "error"}
    /\ ~("complete" \in Range(r) /\ "error" \in Range(r))
    /\ pds.end = "rejected" <=> "error" \in Range(r)
    /\ pds.end = "resolved" <=> "complete" \in Range(r)

\* C28 witness: a run whose crawl succeeded and whose analysis failed has
\* rejected after reporting crawling, analyzing, error.
C28_Witness ==
  /\ pds.pc = "over" /\ pds.end = "rejected"
  /\ pds.reported = <<"crawling", "analyzing", "error">>

\* ======================================================================
\* queryOllama (api/analyze/route.ts:27-118) for one chunk.  `events` is the
\* sequence of requests sent and delays waited, `outcomes` how each request
\* ended.
\* ======================================================================
\* MAX_RETRIES of route.ts:27
OLLAMA_MAX_RETRIES == 3
RETRY_DELAY == 1000

\* failures caught by the outer catch: fetch rejects, response not ok,
\* response.json() rejects
OuterFailures == {"networkError", "notOk", "badBody"}

\* failures caught by the inner catch: JSON.parse throws, componentName
\* missing or not a string, props not an array
InnerFailures == {"badJson", "noName", "propsNotArray"}

OllamaOutcomes == OuterFailures \cup InnerFailures \cup {"valid"}

\* one retry more than the limit
MayRetryOnceMore(retryCount) == retryCount <= OLLAMA_MAX_RETRIES

\* if (retryCount < MAX_RETRIES)
MayRetry(retryCount) == retryCount < OLLAMA_MAX_RETRIES

InitOllama ==
  /\ CrawlOff /\ lnk = Off /\ ext = Off /\ bat = Off
  /\ sto = Off /\ red = Off /\ srch = Off /\ pds = Off
  /\ oll = [pc |-> "fetch", retryCount |-> 0, events |-> <<>>,
            outcomes |-> <<>>, caught |-> "none", ret |-> "pending"]

\* the try block: fetch, response.ok, response.json(), JSON.parse and the
\* schema validation
OllamaRequest ==
  /\ oll.pc = "fetch"
  /\ \E o \in OllamaOutcomes :
       oll' = [oll EXCEPT
                 !.events = Append(@, [kind |-> "request", ms |-> 0]),
                 !.outcomes = Append(@, o),
                 !.caught = IF o \in OuterFailures THEN "outer"
                            ELSE IF o \in InnerFailures THEN "inner"
                            ELSE "none",
                 !.ret = IF o = "valid" THEN "parsed" ELSE @,
                 !.pc = IF o = "valid" THEN "done" ELSE "catch"]
  /\ UNCHANGED <<crawlVars, lnk, ext, bat, sto, red, srch, pds>>

\* either catch block: wait and call queryOllama(content, retryCount + 1),
\* or return null
OllamaCatch ==
  /\ oll.pc = "catch"
  /\ IF MayRetry(oll.retryCount)
     THEN oll' = [oll EXCEPT !.events = Append(@, [kind |-> "wait", ms |-> RETRY_DELAY]),
                             !.retryCount = @ + 1,
                             !.pc = "fetch"]
     ELSE oll' = [oll EXCEPT !.ret = "null", !.pc = "done"]
  /\ UNCHANGED <<crawlVars, lnk, ext, bat, sto, red, srch, pds>>

NextOllama ==
  \/ OllamaRequest
  \/ OllamaCatch

SpecOllama == InitOllama /\ [][NextOllama]_vars

\* the requests sent so far
Requests(events) == Len(SelectSeq(events, LAMBDA e : e.kind = "request"))

\* C30: for one chunk at most MAX_RETRIES + 1 = 4 requests are sent, every
\* request but the first directly follows a wait of RETRY_DELAY, the call
\* never rejects, and it resolves to null when every request or parse failed.
C30_BoundedRetries ==
  oll.pc # "off" =>
    /\ Requests(oll.events) <= OLLAMA_MAX_RETRIES + 1
    /\ OLLAMA_MAX_RETRIES + 1 = 4
    /\ \A k \in 2..Len(oll.events) :
         oll.events[k].kind = "request" =>
           oll.events[k - 1] = [kind |-> "wait", ms |-> RETRY_DELAY]
    /\ Len(oll.events) > 0 => oll.events[1].kind = "request"
    /\ oll.ret \in {"pending", "parsed", "null"}
    /\ oll.pc = "done" =>
         IF \A k \in 1..Len(oll.outcomes) : oll.outcomes[k] # "valid"
         THEN oll.ret = "null" /\ Requests(oll.events) = OLLAMA_MAX_RETRIES + 1
         ELSE oll.ret = "parsed"

\* C30 witness: four requests failed, in the fetch, in the status, in the
\* body and in the parse, and the call resolved to null.
C30_Witness ==
  /\ oll.pc = "done" /\ oll.ret = "null"
  /\ Requests(oll.events) = 4
  /\ \E j, k \in 1..4 : oll.outcomes[j] \in OuterFailures
                        /\ oll.outcomes[k] \in InnerFailures

====
